---- MODULE Spec2Model ----
(***************************************************************************)
(* wxt-module-pages: file-system routes.                                   *)
(*                                                                         *)
(* A string of the program is a sequence of one-character strings, so that *)
(* the regular-expression rewrites of src/router/routes.ts are computed    *)
(* character by character, as the code computes them.                      *)
(***************************************************************************)
EXTENDS Integers, Sequences, FiniteSets, TLC

VARIABLES
    \* one call of filesToRoutes
    files,          \* the absolute paths handed to filesToRoutes
    dirScope,       \* the ambient scope of the pages directory
    routes,         \* the forest it returned
    pc,             \* "collect": files are being enumerated, "built": it returned
    \* the module (module.ts)
    driver,         \* options.driver
    disk,           \* the pages directories on disk and the files in each
    pagesInfos,     \* pagesInfos
    routesByScope,  \* routesByScope, a Map in insertion order
    tasks,          \* the calls of updateRoutes in progress: 'ready' hook, watcher events
    pending,        \* watcher events not yet delivered
    changes,        \* files added or removed since the server started
    serverLog,      \* what the watcher handlers did to the dev server, in order
    loads           \* what the calls of load() read from routesByScope, in order

callVars == <<files, dirScope, routes, pc>>

moduleVars == <<disk, pagesInfos, routesByScope, tasks, pending, changes, serverLog,
                loads>>

vars == <<files, dirScope, routes, pc, driver, disk, pagesInfos, routesByScope,
          tasks, pending, changes, serverLog, loads>>

-----------------------------------------------------------------------------
(* Bounds *)

\* longest file list handed to filesToRoutes
MaxFiles == 3

\* files on disk when the module starts
MaxDiskFiles == 2

\* files added or removed while the server runs
MaxChanges == 2

\* calls of load() that are recorded
MaxLoads == 1

\* calls of updateRoutes that can be in progress: the 'ready' hook is task 1,
\* the others handle watcher events
MaxTasks == 3

TaskIds == 1..MaxTasks

IdleTask == [pc |-> "idle", src |-> 0, idx |-> 0, found |-> <<>>]

-----------------------------------------------------------------------------
(* Strings *)

LowerChars == {"a","b","c","d","e","f","g","h","i","j","k","l","m",
               "n","o","p","q","r","s","t","u","v","w","x","y","z"}
UpperChars == {"A","B","C","D","E","F","G","H","I","J","K","L","M",
               "N","O","P","Q","R","S","T","U","V","W","X","Y","Z"}
DigitChars == {"0","1","2","3","4","5","6","7","8","9"}

\* the regular-expression class \w
WordChars == LowerChars \cup UpperChars \cup DigitChars \cup {"_"}

Empty == <<>>
Slash == <<"/">>
Dot == <<".">>

StartsWith(s, p) == Len(p) <= Len(s) /\ SubSeq(s, 1, Len(p)) = p

EndsWith(s, p) == Len(p) <= Len(s) /\ SubSeq(s, Len(s) - Len(p) + 1, Len(s)) = p

\* String.prototype.slice(n)
Slice(s, n) == SubSeq(s, n + 1, Len(s))

Includes(s, c) == \E i \in 1..Len(s) : s[i] = c

\* index of the first c at or after position i, 0 when there is none
IndexFrom(s, c, i) ==
    LET hits == {k \in i..Len(s) : s[k] = c}
    IN  IF hits = {} THEN 0 ELSE CHOOSE k \in hits : \A m \in hits : k <= m

\* index of the last c, 0 when there is none
LastIndexOf(s, c) ==
    LET hits == {k \in 1..Len(s) : s[k] = c}
    IN  IF hits = {} THEN 0 ELSE CHOOSE k \in hits : \A m \in hits : m <= k

\* s.replace(/c/g, r) for a one-character pattern c and a one-character r
ReplaceChar(s, c, r) == [i \in 1..Len(s) |-> IF s[i] = c THEN r ELSE s[i]]

\* last index of the run of \w characters that starts at i (i - 1: empty run)
WordRunEnd(s, i) ==
    LET stops == {k \in i..Len(s) : s[k] \notin WordChars}
    IN  IF stops = {} THEN Len(s)
        ELSE (CHOOSE k \in stops : \A m \in stops : k <= m) - 1

\* node:path basename
basename(p) == Slice(p, LastIndexOf(p, "/"))

\* node:path dirname, for the relative and absolute paths of this program
dirname(p) ==
    LET k == LastIndexOf(p, "/")
    IN  IF k = 0 THEN Dot
        ELSE IF k = 1 THEN Slash
        ELSE SubSeq(p, 1, k - 1)

\* node:path relative(from, to) for a file `to` below the directory `from`
relative(from, to) ==
    IF StartsWith(to, from \o Slash) THEN Slice(to, Len(from) + 1) ELSE to

-----------------------------------------------------------------------------
(* The regular expressions of routes.ts *)

Extensions == << <<".","v","u","e">>, <<".","j","s","x">>, <<".","t","s","x">>,
                 <<".","s","v","e","l","t","e">>,
                 <<".","c","o","m","p","o","n","e","n","t",".","t","s">> >>

\* s.replace(/\.(vue|jsx|tsx|svelte|component\.ts)$/, '')
stripExtension(s) ==
    LET hits == {k \in 1..Len(Extensions) : EndsWith(s, Extensions[k])}
    IN  IF hits = {} THEN s
        ELSE LET k == CHOOSE h \in hits : \A m \in hits : Len(Extensions[m]) <= Len(Extensions[h])
             IN  SubSeq(s, 1, Len(s) - Len(Extensions[k]))

\* relPath.match(/^@([^/]+)\//): the end of the match, 0 when there is none
scopeMatchEnd(s) ==
    IF Len(s) >= 1 /\ s[1] = "@"
    THEN LET k == IndexFrom(s, "/", 2) IN IF k >= 3 THEN k ELSE 0
    ELSE 0

\* s.replace(/^@[^/]+\//, '')
stripScopePrefix(s) == Slice(s, scopeMatchEnd(s))

RECURSIVE stripGroupsFrom(_, _)
stripGroupsFrom(s, i) ==
    IF i > Len(s) THEN Empty
    ELSE LET j == IF s[i] = "(" THEN IndexFrom(s, ")", i + 1) ELSE 0
         IN  IF j >= i + 2 /\ j + 1 <= Len(s) /\ s[j + 1] = "/"
             THEN stripGroupsFrom(s, j + 2)
             ELSE <<s[i]>> \o stripGroupsFrom(s, i + 1)

\* s.replace(/\([^)]+\)\//g, '')
stripGroups(s) == stripGroupsFrom(s, 1)

\* s.replace(/\[<lead>(\w+)\]/g, '<before>$1<after>') from position i on
RECURSIVE replaceBracketsFrom(_, _, _, _, _)
replaceBracketsFrom(s, i, lead, before, after) ==
    IF i > Len(s) THEN Empty
    ELSE LET b == i + 1 + Len(lead)
             opens == s[i] = "[" /\ StartsWith(Slice(s, i), lead)
             k == IF opens THEN WordRunEnd(s, b) ELSE 0
         IN  IF opens /\ k >= b /\ k + 1 <= Len(s) /\ s[k + 1] = "]"
             THEN before \o SubSeq(s, b, k) \o after
                  \o replaceBracketsFrom(s, k + 2, lead, before, after)
             ELSE <<s[i]>> \o replaceBracketsFrom(s, i + 1, lead, before, after)

Dots == <<".",".",".">>

\* mutant: the [name] segments are left as they are
dynamicToParam_Unchanged(s) == s

\* path.replace(/\[(\w+)\]/g, ':$1')
dynamicToParam(s) == replaceBracketsFrom(s, 1, Empty, <<":">>, Empty)

\* path.replace(/\[\.\.\.(\w+)\]/g, ':$1(.*)*')
catchAllToParam(s) ==
    replaceBracketsFrom(s, 1, Dots, <<":">>, <<"(",".","*",")","*">>)

\* name.replace(/\[\.\.\.(\w+)\]/g, '$1-all')
catchAllToName(s) == replaceBracketsFrom(s, 1, Dots, Empty, <<"-","a","l","l">>)

\* name.replace(/\[(\w+)\]/g, '$1')
dynamicToName(s) == replaceBracketsFrom(s, 1, Empty, Empty, Empty)

\* s.replace(/\/:?/g, '-') from position i on
RECURSIVE slashColonToDashFrom(_, _)
slashColonToDashFrom(s, i) ==
    IF i > Len(s) THEN Empty
    ELSE IF s[i] = "/"
         THEN <<"-">> \o slashColonToDashFrom(s,
                  IF i + 1 <= Len(s) /\ s[i + 1] = ":" THEN i + 2 ELSE i + 1)
         ELSE <<s[i]>> \o slashColonToDashFrom(s, i + 1)

W_index == <<"i","n","d","e","x">>
W_parent == <<"p","a","r","e","n","t">>

-----------------------------------------------------------------------------
(* Drivers: the special file names and extension handed to filesToRoutes *)

S_vue == <<".","v","u","e">>
S_tsx == <<".","t","s","x">>
S_ts == <<".","t","s">>
S_plusIndex == <<"+","i","n","d","e","x">>
S_plusLayout == <<"+","l","a","y","o","u","t">>

vueDriver ==
    [name |-> "Vue", ext |-> S_vue,
     hasLayoutFile |-> TRUE, layoutFile |-> S_plusLayout \o S_vue,
     hasParentFile |-> TRUE, parentFile |-> S_plusIndex \o S_vue]

reactDriver ==
    [name |-> "React", ext |-> S_tsx,
     hasLayoutFile |-> TRUE, layoutFile |-> S_plusLayout \o S_tsx,
     hasParentFile |-> TRUE, parentFile |-> S_plusLayout \o S_tsx]

litDriver ==
    [name |-> "Lit", ext |-> S_ts,
     hasLayoutFile |-> TRUE, layoutFile |-> S_plusLayout \o S_ts,
     hasParentFile |-> TRUE, parentFile |-> S_plusIndex \o S_ts]

\* a driver that sets neither layoutFile nor parentFile (both are optional)
plainDriver ==
    [name |-> "Plain", ext |-> S_vue,
     hasLayoutFile |-> FALSE, layoutFile |-> Empty,
     hasParentFile |-> FALSE, parentFile |-> Empty]

Drivers == {vueDriver, reactDriver, litDriver, plainDriver}

-----------------------------------------------------------------------------
(* FileNode and RouteDefinition *)

\* files.map(absPath => ...) of filesToRoutes: one FileNode
toNode(absPath, baseDir, scope, d) ==
    LET relPath == ReplaceChar(relative(baseDir, absPath), "\\", "/")
        m == scopeMatchEnd(relPath)
    IN  [absPath |-> absPath,
         relPath |-> relPath,
         isParent |-> d.hasParentFile /\ d.parentFile # Empty
                      /\ basename(absPath) = d.parentFile,
         isLayout |-> d.hasLayoutFile /\ d.layoutFile # Empty
                      /\ basename(absPath) = d.layoutFile,
         scope |-> IF m > 0 THEN SubSeq(relPath, 2, m - 1) ELSE scope]

\* a RouteDefinition; children and layout are optional fields of the interface
Route(path, name, file, scope, hasChildren) ==
    [path |-> path, name |-> name, file |-> file, scope |-> scope,
     hasChildren |-> hasChildren, children |-> <<>>,
     hasLayout |-> FALSE, layout |-> Empty]

\* relativePath of fileToRoute: extension and @scope/ prefix stripped
strippedRelPath(node) == stripScopePrefix(stripExtension(node.relPath))

\* cleanRelativePath of fileToRoute: route groups removed
cleanRelPath(node) == stripGroups(strippedRelPath(node))

\* scope of fileToRoute: parentScope || node.scope
routeScope(node, parentScope) == IF parentScope # Empty THEN parentScope ELSE node.scope

\* mutant: the parent-file route keeps its own prefix when it is nested
parentFileRoute_KeepsPrefix(node, parentPath, parentScope) ==
    LET dir == dirname(cleanRelPath(node))
        path == IF dir = Dot THEN Empty ELSE dir
        dashed == ReplaceChar(path, "/", "-")
    IN  Route(Slash \o path,
              IF dashed # Empty THEN dashed ELSE W_parent,
              node.absPath, routeScope(node, parentScope), TRUE)

\* fileToRoute, isParent branch
parentFileRoute(node, parentPath, parentScope) ==
    LET dir == dirname(cleanRelPath(node))
        path == IF dir = Dot THEN Empty ELSE dir
        dashed == ReplaceChar(path, "/", "-")
    IN  Route(IF parentPath # Empty THEN Empty ELSE Slash \o path,
              IF dashed # Empty THEN dashed ELSE W_parent,
              node.absPath, routeScope(node, parentScope), TRUE)

\* mutant: index files are treated like any other page
indexPath_NoIndexRule(fileName, clean) == Slash \o clean

\* fileToRoute, "handle index routes"
indexPath(fileName, clean) ==
    IF fileName = W_index
    THEN IF dirname(clean) = Dot THEN Slash ELSE Slash \o dirname(clean)
    ELSE Slash \o clean

\* fileToRoute, "remove parent path if nested"
nestedPath(path, parentPath) ==
    IF parentPath # Empty /\ StartsWith(path, parentPath)
    THEN LET rest == Slice(path, Len(parentPath))
         IN  IF StartsWith(rest, Slash) /\ rest # Slash THEN Slice(rest, 1) ELSE rest
    ELSE path

\* fileToRoute, "convert to route name"
routeName(clean) ==
    LET dashed == ReplaceChar(dynamicToName(catchAllToName(clean)), "/", "-")
        suffix == <<"-">> \o W_index
    IN  IF EndsWith(dashed, suffix)
        THEN SubSeq(dashed, 1, Len(dashed) - Len(suffix))
        ELSE dashed

\* fileToRoute, page branch
pageRoute(node, parentPath, parentScope) ==
    LET fileName == basename(strippedRelPath(node))
        clean == cleanRelPath(node)
        path == catchAllToParam(dynamicToParam(indexPath(fileName, clean)))
    IN  Route(nestedPath(path, parentPath), routeName(clean),
              node.absPath, routeScope(node, parentScope), FALSE)

fileToRoute(node, parentPath, isParent, parentScope) ==
    IF isParent THEN parentFileRoute(node, parentPath, parentScope)
    ELSE pageRoute(node, parentPath, parentScope)

-----------------------------------------------------------------------------
(* buildRouteTree *)

\* byDirectory: a Map in insertion order, as a sequence of [dir, nodes] entries
RECURSIVE groupFrom(_, _, _)
groupFrom(nodes, i, byDir) ==
    IF i > Len(nodes) THEN byDir
    ELSE LET dir == dirname(nodes[i].relPath)
             at == {k \in 1..Len(byDir) : byDir[k].dir = dir}
         IN  IF at = {}
             THEN groupFrom(nodes, i + 1,
                            Append(byDir, [dir |-> dir, nodes |-> <<nodes[i]>>]))
             ELSE LET k == CHOOSE x \in at : TRUE
                  IN  groupFrom(nodes, i + 1,
                          [byDir EXCEPT ![k].nodes = Append(@, nodes[i])])

groupByDirectory(nodes) == groupFrom(nodes, 1, <<>>)

\* byDirectory.has(dir)
hasDir(byDir, dir) == \E k \in 1..Len(byDir) : byDir[k].dir = dir

\* byDirectory.get(dir) || []
filesIn(byDir, dir) ==
    IF hasDir(byDir, dir)
    THEN byDir[CHOOSE k \in 1..Len(byDir) : byDir[k].dir = dir].nodes
    ELSE <<>>

\* childDir of a page: dir === '.' ? pageName : `${dir}/${pageName}`
childDirOf(dir, page) ==
    LET pageName == stripExtension(basename(page.relPath))
    IN  IF dir = Dot THEN pageName ELSE dir \o Slash \o pageName

\* the "flat" route rewrite of processDirectory
flatRoute(route) ==
    IF Includes(route.path, "_")
    THEN LET path == ReplaceChar(route.path, "_", "/")
             trimmed == IF StartsWith(path, Slash) THEN Slice(path, 1) ELSE path
         IN  [route EXCEPT !.path = path, !.name = slashColonToDashFrom(trimmed, 1)]
    ELSE route

\* the orphan test of processDirectory
isOrphanDir(subDir, dir, processedDirs) ==
    subDir # dir /\ dirname(subDir) = dir /\ subDir \notin processedDirs

\* mutant: the parent route is put in front of the routes it should wrap
wrapInParent_Sibling(parentRoute, dirRoutes) == <<parentRoute>> \o dirRoutes

\* mutant: the wrapped routes are stored in reverse order
wrapInParent_Reversed(parentRoute, dirRoutes) ==
    << [parentRoute EXCEPT
          !.hasChildren = TRUE,
          !.children = [i \in 1..Len(dirRoutes) |-> dirRoutes[Len(dirRoutes) + 1 - i]]] >>

\* "if there's a parent (router view) wrap all routes in it"
wrapInParent(parentRoute, dirRoutes) ==
    << [parentRoute EXCEPT !.hasChildren = TRUE, !.children = dirRoutes] >>

\* route.layout = layout.absPath
withLayout(route, layout) ==
    [route EXCEPT !.hasLayout = TRUE, !.layout = layout.absPath]

RECURSIVE processDirectory(_, _, _, _)
RECURSIVE orphanRoutesFrom(_, _, _, _, _)

\* the loop over byDirectory that splices the orphan sub-directories in
orphanRoutesFrom(byDir, k, dir, processedDirs, parentScope) ==
    IF k > Len(byDir) THEN <<>>
    ELSE (IF isOrphanDir(byDir[k].dir, dir, processedDirs)
          THEN processDirectory(byDir, byDir[k].dir, Empty, parentScope)
          ELSE <<>>)
         \o orphanRoutesFrom(byDir, k + 1, dir, processedDirs, parentScope)

processDirectory(byDir, dir, parentPath, parentScope) ==
    LET filesInDir == filesIn(byDir, dir)
        parents == SelectSeq(filesInDir, LAMBDA f : f.isParent)
        layouts == SelectSeq(filesInDir, LAMBDA f : f.isLayout)
        pages == SelectSeq(filesInDir, LAMBDA f : ~f.isLayout /\ ~f.isParent)
        routeOf(page) ==
            LET route == fileToRoute(page, parentPath, FALSE, parentScope)
                laid == IF layouts # <<>> THEN withLayout(route, layouts[1]) ELSE route
                childDir == childDirOf(dir, page)
                nested == IF hasDir(byDir, childDir)
                          THEN [laid EXCEPT
                                  !.hasChildren = TRUE,
                                  !.children = processDirectory(byDir, childDir,
                                                                laid.path, laid.scope)]
                          ELSE laid
            IN  flatRoute(nested)
        pageRoutes == [i \in 1..Len(pages) |-> routeOf(pages[i])]
        processedDirs == {childDirOf(dir, pages[i]) : i \in 1..Len(pages)}
        dirRoutes == pageRoutes \o orphanRoutesFrom(byDir, 1, dir, processedDirs, parentScope)
    IN  IF parents # <<>>
        THEN wrapInParent(fileToRoute(parents[1], parentPath, TRUE, parentScope), dirRoutes)
        ELSE dirRoutes

buildRouteTree(nodes) == processDirectory(groupByDirectory(nodes), Dot, Empty, Empty)

filesToRoutes(fs, baseDir, scope, d) ==
    buildRouteTree([i \in 1..Len(fs) |-> toNode(fs[i], baseDir, scope, d)])

-----------------------------------------------------------------------------
(* The inputs: one pages directory and the files found below it *)

W_users == <<"u","s","e","r","s">>
W_id == <<"i","d">>
W_docs == <<"d","o","c","s">>
W_category == <<"c","a","t","e","g","o","r","y">>
W_admin == <<"a","d","m","i","n">>
W_settings == <<"s","e","t","t","i","n","g","s">>
W_edit == <<"e","d","i","t">>
W_slug == <<"s","l","u","g">>
W_about == <<"a","b","o","u","t">>
W_billing == <<"b","i","l","l","i","n","g">>
W_invoice == <<"i","n","v","o","i","c","e">>
W_user_id == <<"u","s","e","r","_","i","d">>
W_pages == <<"p","a","g","e","s">>
W_global == <<"g","l","o","b","a","l">>
W_popup == <<"p","o","p","u","p">>
W_dashboard == <<"d","a","s","h","b","o","a","r","d">>
W_overview == <<"o","v","e","r","v","i","e","w">>
W_components == <<"c","o","m","p","o","n","e","n","t","s">>
W_Button == <<"B","u","t","t","o","n">>
W_drafts == <<"d","r","a","f","t","s">>
W_feature == <<"f","e","a","t","u","r","e">>

Br(w) == <<"[">> \o w \o <<"]">>
BrAll(w) == <<"[">> \o Dots \o w \o <<"]">>
Grp(w) == <<"(">> \o w \o <<")">>
Us == <<"_">>
At == <<"@">>

\* relative paths, without extension, of the files a pages directory may hold
Stems ==
    { W_index,
      W_about,
      W_users,
      W_users \o Slash \o W_index,
      W_users \o Slash \o Br(W_id),
      W_docs \o Slash \o Br(W_category) \o Slash \o Br(W_id),
      Grp(W_admin) \o Slash \o W_settings,
      W_users \o Slash \o Grp(W_admin) \o Slash \o W_settings,
      W_users \o Us \o Br(W_id) \o Us \o W_edit,
      W_docs \o Us \o BrAll(W_slug),
      Br(W_user_id),
      S_plusIndex,
      S_plusLayout,
      W_users \o Slash \o S_plusIndex,
      At \o W_billing \o Slash \o W_invoice,
      W_dashboard \o Slash \o S_plusIndex,
      W_dashboard \o Slash \o W_index,
      W_dashboard \o Slash \o W_overview,
      Us \o W_components \o Slash \o W_Button,
      Dot \o W_drafts \o Slash \o W_feature,
      W_docs \o Slash \o BrAll(W_slug),
      W_users \o Slash \o S_plusLayout,
      W_settings,
      Grp(W_admin) \o Slash \o S_plusIndex,
      At \o W_billing \o Slash \o S_plusIndex,
      W_users \o Slash \o Br(W_id) \o Slash \o S_plusIndex,
      W_users \o Slash \o Br(W_id) \o Us \o W_edit }

BaseDir == Slash \o W_pages

\* the configurations of a call: the driver and the ambient scope of the directory
Configs ==
    { [driver |-> plainDriver, dirScope |-> W_global],
      [driver |-> vueDriver, dirScope |-> W_popup],
      [driver |-> reactDriver, dirScope |-> W_popup],
      [driver |-> litDriver, dirScope |-> W_global] }

\* the absolute path of the file with relative path stem + ext below base
AbsPath(base, stem, ext) == base \o Slash \o stem \o ext

InSeq(x, s) == \E i \in 1..Len(s) : s[i] = x

-----------------------------------------------------------------------------
(* Specification of one call of filesToRoutes *)

TypeOK ==
    /\ pc \in {"collect", "built"}
    /\ [driver |-> driver, dirScope |-> dirScope] \in Configs
    /\ Len(files) <= MaxFiles

\* the module before its 'ready' hook: nothing scanned, nothing built
ModuleAtRest ==
    /\ disk = <<>>
    /\ pagesInfos = <<>>
    /\ routesByScope = <<>>
    /\ tasks = [t \in TaskIds |-> IdleTask]
    /\ pending = 0
    /\ changes = 0
    /\ serverLog = <<>>
    /\ loads = <<>>

Init ==
    /\ files = <<>>
    /\ \E c \in Configs : driver = c.driver /\ dirScope = c.dirScope
    /\ routes = <<>>
    /\ pc = "collect"
    /\ ModuleAtRest

\* the discovery collaborator enumerates one more file of the pages directory
AddFile(stem) ==
    /\ pc = "collect"
    /\ Len(files) < MaxFiles
    /\ ~InSeq(AbsPath(BaseDir, stem, driver.ext), files)
    /\ files' = Append(files, AbsPath(BaseDir, stem, driver.ext))
    /\ UNCHANGED <<driver, dirScope, routes, pc>>
    /\ UNCHANGED moduleVars

\* routes = filesToRoutes(files, dir, dirScope, driver.parentFile, driver.layoutFile)
Build ==
    /\ pc = "collect"
    /\ routes' = filesToRoutes(files, BaseDir, dirScope, driver)
    /\ pc' = "built"
    /\ UNCHANGED <<files, driver, dirScope>>
    /\ UNCHANGED moduleVars

Next ==
    \/ \E stem \in Stems : AddFile(stem)
    \/ Build

Spec == Init /\ [][Next]_vars

-----------------------------------------------------------------------------
(* Vocabulary of the properties *)

\* every route of a forest, parents before their children
RECURSIVE Flatten(_)
Flatten(rs) ==
    IF rs = <<>> THEN <<>>
    ELSE <<Head(rs)>> \o Flatten(Head(rs).children) \o Flatten(Tail(rs))

Elems(s) == {s[i] : i \in 1..Len(s)}

AllRoutes == Elems(Flatten(routes))

\* s contains sub as a substring
Contains(s, sub) ==
    \E i \in 1..(Len(s) - Len(sub) + 1) : SubSeq(s, i, i + Len(sub) - 1) = sub

RelOf(f) == Slice(f, Len(BaseDir) + 1)

\* the relative path of an input file without its extension
StemOf(f) == SubSeq(RelOf(f), 1, Len(RelOf(f)) - Len(driver.ext))

FileOf(stem) == AbsPath(BaseDir, stem, driver.ext)

IsLayoutFile(f) == driver.hasLayoutFile /\ basename(f) = driver.layoutFile

IsParentFile(f) == driver.hasParentFile /\ basename(f) = driver.parentFile

IsPageFile(f) == ~IsLayoutFile(f) /\ ~IsParentFile(f)

\* the input files that are ordinary pages, in input order
PageFiles == SelectSeq(files, IsPageFile)

FilesOf(rs) == [i \in 1..Len(rs) |-> rs[i].file]

\* the routes that are in no page route's children: the top-level list and,
\* through parent-file routes only, the lists they wrap
RECURSIVE TopRoutes(_)
TopRoutes(rs) ==
    IF rs = <<>> THEN <<>>
    ELSE <<Head(rs)>>
         \o (IF IsParentFile(Head(rs).file) THEN TopRoutes(Head(rs).children) ELSE <<>>)
         \o TopRoutes(Tail(rs))

\* the FileNodes and the directory index of the current input
Nodes == [i \in 1..Len(files) |-> toNode(files[i], BaseDir, dirScope, driver)]

-----------------------------------------------------------------------------
(* C1 *)

P_users == Slash \o W_users
P_usersId == Slash \o W_users \o Slash \o <<":">> \o W_id
N_usersId == W_users \o <<"-">> \o W_id

C1_Files ==
    << AbsPath(BaseDir, W_index, S_vue),
       AbsPath(BaseDir, W_users \o Slash \o W_index, S_vue),
       AbsPath(BaseDir, W_users \o Slash \o Br(W_id), S_vue) >>

C1_Case ==
    /\ pc = "built"
    /\ files = C1_Files
    /\ driver = plainDriver
    /\ dirScope = W_global

\* C1 as stated: index.vue, users/index.vue, users/[id].vue give the top-level
\* routes ('/', index) and ('/users', users), and the route of users/[id].vue
\* is a child of the '/users' route with path ':id' and name 'users-id'.
C1_NestedUnderUsers ==
    C1_Case =>
        /\ \E i \in 1..Len(routes) : routes[i].path = Slash /\ routes[i].name = W_index
        /\ \E j \in 1..Len(routes) :
              /\ routes[j].path = P_users
              /\ routes[j].name = W_users
              /\ \E k \in 1..Len(routes[j].children) :
                    /\ routes[j].children[k].file = C1_Files[3]
                    /\ routes[j].children[k].path = <<":">> \o W_id
                    /\ routes[j].children[k].name = N_usersId

\* C1 amended: the three files give exactly three top-level routes, in order
\* ('/', index), ('/users', users), ('/users/:id', users-id), none of them with
\* children: users/ is spliced in as an orphan directory, not nested.
C1_ThreeTopLevel ==
    C1_Case =>
        /\ Len(routes) = 3
        /\ FilesOf(routes) = C1_Files
        /\ routes[1].path = Slash /\ routes[1].name = W_index
        /\ routes[2].path = P_users /\ routes[2].name = W_users
        /\ routes[3].path = P_usersId /\ routes[3].name = N_usersId
        /\ \A i \in 1..3 : ~routes[i].hasChildren

C1_Witness == C1_Case /\ Len(routes) = 3

-----------------------------------------------------------------------------
(* C2 *)

\* C2: every input file that is neither the layout nor the parent file backs
\* at least one route of the forest, at any directory depth.
C2_EveryPageHasRoute ==
    pc = "built" =>
        \A i \in 1..Len(files) :
            IsPageFile(files[i]) => \E r \in AllRoutes : r.file = files[i]

-----------------------------------------------------------------------------
(* C3 *)

FlatList == \A i \in 1..Len(files) : dirname(RelOf(files[i])) = Dot

HasRootParent == \E i \in 1..Len(files) : IsParentFile(files[i])

\* C3 as stated: for a list of files that all sit in the base directory, the
\* number of top-level routes is the number of files that are neither layout
\* nor parent files.
C3_CountEqualsPages ==
    (pc = "built" /\ FlatList) => Len(routes) = Len(PageFiles)

\* C3 amended: for such a list, without a root parent file the top-level
\* routes are the routes of the page files, one each in input order; with a
\* root parent file there is exactly one top-level route, the parent's, and
\* its children are the routes of the page files, one each in input order.
C3_FlatTopLevel ==
    (pc = "built" /\ FlatList) =>
        IF HasRootParent
        THEN /\ Len(routes) = 1
             /\ IsParentFile(routes[1].file)
             /\ FilesOf(routes[1].children) = PageFiles
        ELSE FilesOf(routes) = PageFiles

C3_Witness ==
    /\ pc = "built"
    /\ FlatList
    /\ HasRootParent
    /\ Len(PageFiles) = 2
    /\ Len(routes) = 1

-----------------------------------------------------------------------------
(* C4 *)

SpecialChars == {"[", "]", "(", ")", "@", "_"}

PlainStem(s) == \A i \in 1..Len(s) : s[i] \notin SpecialChars

\* the path C4 gives a page: its directory for index, else '/' + relative path
DirectoryOrFilePath(stem) ==
    IF basename(stem) = W_index
    THEN IF dirname(stem) = Dot THEN Slash ELSE Slash \o dirname(stem)
    ELSE Slash \o stem

\* the file has an extension that fileToRoute strips
HasStrippedExtension(f) == \E e \in Elems(Extensions) : EndsWith(f, e)

-----------------------------------------------------------------------------
(* C5 *)

\* the names x of the segments [x] of s, x made of word characters
ParamNames(s) ==
    {SubSeq(s, i + 1, WordRunEnd(s, i + 1)) :
        i \in {k \in 1..Len(s) :
                 /\ s[k] = "["
                 /\ WordRunEnd(s, k + 1) >= k + 1
                 /\ WordRunEnd(s, k + 1) + 1 <= Len(s)
                 /\ s[WordRunEnd(s, k + 1) + 1] = "]"}}

\* the names x of the segments [...x] of s
CatchAllNames(s) ==
    {SubSeq(s, i + 4, WordRunEnd(s, i + 4)) :
        i \in {k \in 1..Len(s) :
                 /\ s[k] = "["
                 /\ StartsWith(Slice(s, k), Dots)
                 /\ WordRunEnd(s, k + 4) >= k + 4
                 /\ WordRunEnd(s, k + 4) + 1 <= Len(s)
                 /\ s[WordRunEnd(s, k + 4) + 1] = "]"}}

\* the part of a file's relative path that its route's path renders: all of
\* it for a route in no page's children, the file's own name for a nested one
RenderedPart(r) ==
    IF r \in Elems(TopRoutes(routes)) THEN StemOf(r.file) ELSE basename(StemOf(r.file))

\* C5: in the path of the route finally returned, a segment [name] appears as
\* ':name' and a segment [...name] as ':name(.*)*', for every name of word
\* characters (letters, digits, underscore).
C5_ParamsRendered ==
    pc = "built" =>
        \A r \in AllRoutes :
            IsPageFile(r.file) =>
                /\ \A x \in ParamNames(RenderedPart(r)) :
                      Contains(r.path, <<":">> \o x)
                /\ \A x \in CatchAllNames(RenderedPart(r)) :
                      Contains(r.path, <<":">> \o x \o <<"(",".","*",")","*">>)

-----------------------------------------------------------------------------
(* C6 *)

HasGroup(stem) == stripGroups(stem) # stem

\* the forest of the input with its i-th file moved out of its (group)/ folders
UngroupedForest(i) ==
    filesToRoutes([files EXCEPT ![i] = FileOf(stripGroups(StemOf(files[i])))],
                  BaseDir, dirScope, driver)

\* C6: a page file with '(group)/' segments at any position gets a route whose
\* path and name are those the same file would get with the segments removed.
C6_GroupElided ==
    pc = "built" =>
        \A i \in 1..Len(files) :
            (IsPageFile(files[i]) /\ HasGroup(StemOf(files[i]))) =>
                \E r \in AllRoutes, q \in Elems(Flatten(UngroupedForest(i))) :
                    /\ r.file = files[i]
                    /\ q.file = FileOf(stripGroups(StemOf(files[i])))
                    /\ r.path = q.path
                    /\ r.name = q.name

-----------------------------------------------------------------------------
(* C7 *)

\* the stems that join segments with '_'
FlatStems ==
    { W_users \o Us \o Br(W_id) \o Us \o W_edit,
      W_docs \o Us \o BrAll(W_slug) }

\* the route of the nested file that a flat stem abbreviates
NestedTwin(stem) ==
    pageRoute(toNode(FileOf(ReplaceChar(stem, "_", "/")), BaseDir, dirScope, driver),
              Empty, Empty)

\* C7: a page whose stem joins segments with '_' gets the path and the name
\* of the nested file obtained by replacing each '_' with '/'.
C7_FlatLikeNested ==
    pc = "built" =>
        \A r \in AllRoutes :
            StemOf(r.file) \in FlatStems =>
                /\ r.path = NestedTwin(StemOf(r.file)).path
                /\ r.name = NestedTwin(StemOf(r.file)).name

-----------------------------------------------------------------------------
(* C8 *)

DirOf(f) == dirname(RelOf(f))

\* the ordinary page files directly in directory D, in input order
PagesIn(D) == SelectSeq(files, LAMBDA f : IsPageFile(f) /\ DirOf(f) = D)

DirsWithParent == {DirOf(files[i]) : i \in {k \in 1..Len(files) : IsParentFile(files[k])}}

\* every input file sits in D or outside it, none in a sub-directory of D
NoSubDirOf(D) ==
    \A i \in 1..Len(files) :
        \/ DirOf(files[i]) = D
        \/ (D # Dot /\ ~StartsWith(DirOf(files[i]), D \o Slash))

\* the parent paths and scopes with which processDirectory is entered
ParentPaths == {Empty, P_users}
ParentScopes == {Empty, dirScope}

\* what processDirectory returns for D: at the root, what the build returned
ResultOf(D, parentPath, parentScope) ==
    IF D = Dot /\ parentPath = Empty /\ parentScope = Empty
    THEN routes
    ELSE processDirectory(groupByDirectory(Nodes), D, parentPath, parentScope)

\* C8: for a directory with the parent file and n ordinary pages,
\* processDirectory returns exactly one route, the parent's, whose children
\* hold the n page routes in input order (and nothing else when the
\* directory has no sub-directories).
C8_ParentWrapsPages ==
    pc = "built" =>
        \A D \in DirsWithParent, pp \in ParentPaths, ps \in ParentScopes :
            LET res == ResultOf(D, pp, ps)
                n == Len(PagesIn(D))
            IN  /\ Len(res) = 1
                /\ IsParentFile(res[1].file)
                /\ DirOf(res[1].file) = D
                /\ res[1].hasChildren
                /\ Len(res[1].children) >= n
                /\ SubSeq(FilesOf(res[1].children), 1, n) = PagesIn(D)
                /\ (NoSubDirOf(D) => Len(res[1].children) = n)

C8_Witness ==
    /\ pc = "built"
    /\ Dot \in DirsWithParent
    /\ Len(PagesIn(Dot)) = 2
    /\ Len(routes) = 1
    /\ Len(routes[1].children) = 2

-----------------------------------------------------------------------------
(* C9 *)

\* C9: a page route whose file sits in a directory holding the layout file
\* carries that file as its layout, and no route has the layout file as its
\* own file.
C9_LayoutNeverARoute ==
    pc = "built" =>
        /\ \A r \in AllRoutes :
              IsPageFile(r.file) =>
                  \A i \in 1..Len(files) :
                      (IsLayoutFile(files[i]) /\ DirOf(files[i]) = DirOf(r.file))
                          => (r.hasLayout /\ r.layout = files[i])
        /\ \A r \in AllRoutes : ~IsLayoutFile(r.file)

-----------------------------------------------------------------------------
(* The module: module.ts, with router/fs.ts *)

W_entrypoints == <<"e","n","t","r","y","p","o","i","n","t","s">>

\* wxt.config.srcDir
SrcDir == Slash \o <<"s","r","c">>

\* sourceDirs, when no layer is resolved
sourceDirs == <<SrcDir>>

\* join(sourcePath, 'pages')
PagesDirOf(sourcePath) == sourcePath \o Slash \o W_pages

\* a match of join(sourcePath, 'entrypoints/*/pages')
EntryPagesDirOf(sourcePath, entry) ==
    sourcePath \o Slash \o W_entrypoints \o Slash \o entry \o Slash \o W_pages

\* the entrypoints whose pages directory the glob can find
Entrypoints == <<W_popup>>

\* the pages directories that can exist on disk
PagesDirs == <<PagesDirOf(SrcDir), EntryPagesDirOf(SrcDir, W_popup)>>

\* the files, without extension, that a pages directory can hold
ModuleStems ==
    { W_index,
      S_plusIndex,
      At \o W_global \o Slash \o W_index }

\* path.match(/\/entrypoints\/([^/]+)\/pages$/): the scope of a pages directory
scopeOfPagesDir(path) ==
    LET tail == Slash \o W_pages
        front == SubSeq(path, 1, Len(path) - Len(tail))
        k == LastIndexOf(front, "/")
    IN  IF /\ EndsWith(path, tail)
           /\ k > 0
           /\ Slice(front, k) # Empty
           /\ EndsWith(SubSeq(front, 1, k - 1), Slash \o W_entrypoints)
        THEN Slice(front, k)
        ELSE W_global

\* getPagesDirs(sourcePath) on the disk d: the folders that are directories
getPagesDirs(sourcePath, d) ==
    LET folders == <<PagesDirOf(sourcePath)>>
                   \o SelectSeq([i \in 1..Len(Entrypoints) |->
                                    EntryPagesDirOf(sourcePath, Entrypoints[i])],
                                LAMBDA f : f \in DOMAIN d)
        found == SelectSeq(folders, LAMBDA f : f \in DOMAIN d)
    IN  [i \in 1..Len(found) |-> [scope |-> scopeOfPagesDir(found[i]), path |-> found[i]]]

\* getPageFiles(dir, extensions) on the disk d, read when the call completes
getPageFiles(dir, ext, d) ==
    IF dir \in DOMAIN d
    THEN SelectSeq([i \in 1..Len(d[dir]) |-> AbsPath(dir, d[dir][i], ext)],
                   LAMBDA f : EndsWith(f, ext))
    ELSE <<>>

\* routesByScope.has(scope)
mapHas(m, scope) == \E k \in 1..Len(m) : m[k].scope = scope

\* routesByScope.get(scope), [] standing for undefined
mapGet(m, scope) ==
    IF mapHas(m, scope)
    THEN m[CHOOSE k \in 1..Len(m) : m[k].scope = scope].routes
    ELSE <<>>

\* existingRoutes.findIndex(r => r.path === route.path), 0 standing for -1
findIndexByPath(existing, path) ==
    LET hits == {i \in 1..Len(existing) : existing[i].path = path}
    IN  IF hits = {} THEN 0 ELSE CHOOSE i \in hits : \A j \in hits : i <= j

\* mutant: a route is pushed whether or not its path is already in the list
mergeRoute_AlwaysAppend(m, route) ==
    LET m1 == IF mapHas(m, route.scope) THEN m
              ELSE Append(m, [scope |-> route.scope, routes |-> <<>>])
        k == CHOOSE x \in 1..Len(m1) : m1[x].scope = route.scope
    IN  [m1 EXCEPT ![k].routes = Append(@, route)]

\* mutant: a route whose path is already in the list of its scope is dropped
mergeRoute_FirstWins(m, route) ==
    LET m1 == IF mapHas(m, route.scope) THEN m
              ELSE Append(m, [scope |-> route.scope, routes |-> <<>>])
        k == CHOOSE x \in 1..Len(m1) : m1[x].scope = route.scope
        at == findIndexByPath(m1[k].routes, route.path)
    IN  IF at > 0 THEN m1 ELSE [m1 EXCEPT ![k].routes = Append(@, route)]

\* the body of the loop over routes in buildRoutes
mergeRoute(m, route) ==
    LET m1 == IF mapHas(m, route.scope) THEN m
              ELSE Append(m, [scope |-> route.scope, routes |-> <<>>])
        k == CHOOSE x \in 1..Len(m1) : m1[x].scope = route.scope
        at == findIndexByPath(m1[k].routes, route.path)
    IN  IF at > 0
        THEN [m1 EXCEPT ![k].routes[at] = route]
        ELSE [m1 EXCEPT ![k].routes = Append(@, route)]

\* for (const route of routes) ...
RECURSIVE mergeRoutes(_, _)
mergeRoutes(m, rs) ==
    IF rs = <<>> THEN m ELSE mergeRoutes(mergeRoute(m, Head(rs)), Tail(rs))

\* mutant: the map is cleared and 'global' is not set again
clearedMap_NoGlobal == <<>>

\* routesByScope.clear(); routesByScope.set('global', [])
clearedMap == << [scope |-> W_global, routes |-> <<>>] >>

\* mutant: the handler invalidates the modules and sends no full-reload
afterUpdate_NoReload(t, log) ==
    IF t = 1 THEN log
    ELSE log \o <<"updated", "invalidate">>

\* what the caller of updateRoutes() does when the call returns: the 'ready'
\* hook leaves the dev server alone; the watcher handler logs the update,
\* invalidates the virtual modules and sends the full-reload message
afterUpdate(t, log) ==
    IF t = 1 THEN log
    ELSE log \o <<"updated", "invalidate", "full-reload">>

\* a task whose updateRoutes() has returned: the 'ready' hook stays done, the
\* call of a watcher handler is over
finished(t) == IF t = 1 THEN [pc |-> "done", src |-> 0, idx |-> 0, found |-> <<>>] ELSE IdleTask

\* the number of files on the disk d
RECURSIVE countFiles(_, _)
countFiles(d, k) ==
    IF k > Len(PagesDirs) THEN 0
    ELSE (IF PagesDirs[k] \in DOMAIN d THEN Len(d[PagesDirs[k]]) ELSE 0)
         + countFiles(d, k + 1)

ModuleTypeOK ==
    /\ DOMAIN disk \subseteq Elems(PagesDirs)
    /\ \A t \in TaskIds : tasks[t].pc \in {"idle", "scan", "files", "merge", "done"}
    /\ \A t \in TaskIds :
          tasks[t].pc \in {"files", "merge"} => tasks[t].idx \in 1..Len(pagesInfos)
    /\ \A t \in TaskIds : tasks[t].pc = "scan" => tasks[t].src \in 1..Len(sourceDirs)
    /\ pending \in 0..MaxChanges
    /\ changes \in 0..MaxChanges
    /\ Len(serverLog) <= 3 * MaxChanges
    /\ Len(loads) <= MaxLoads

InitModule ==
    /\ files = <<>>
    /\ dirScope = W_global
    /\ routes = <<>>
    /\ pc = "module"
    /\ driver = vueDriver
    /\ ModuleAtRest

\* the project, before the module starts: one more file in a pages directory
CreateFile(dir, stem) ==
    /\ tasks[1].pc = "idle"
    /\ countFiles(disk, 1) < MaxDiskFiles
    /\ dir \in DOMAIN disk => ~InSeq(stem, disk[dir])
    /\ disk' = (dir :> (IF dir \in DOMAIN disk THEN Append(disk[dir], stem) ELSE <<stem>>))
               @@ disk
    /\ UNCHANGED <<pagesInfos, routesByScope, tasks, pending, changes, driver, serverLog, loads>>
    /\ UNCHANGED callVars

\* wxt.hook('ready'): updateRoutes() runs up to its first await
Ready ==
    /\ tasks[1].pc = "idle"
    /\ tasks' = [tasks EXCEPT ![1] = [pc |-> "scan", src |-> 1, idx |-> 0, found |-> <<>>]]
    /\ UNCHANGED <<disk, pagesInfos, routesByScope, pending, changes, driver, serverLog, loads>>
    /\ UNCHANGED callVars

\* updateRoutes: `await getPagesDirs(sourceDir)` completes and the dirs are
\* pushed; after the last source directory buildRoutes starts: it clears the
\* map, sets 'global' and runs up to its first `await getPageFiles`
ScanDone(t) ==
    /\ tasks[t].pc = "scan"
    /\ LET src == tasks[t].src
           infos == pagesInfos \o getPagesDirs(sourceDirs[src], disk)
       IN  /\ pagesInfos' = infos
           /\ IF src < Len(sourceDirs)
              THEN /\ tasks' = [tasks EXCEPT ![t].src = src + 1]
                   /\ UNCHANGED routesByScope
              ELSE /\ routesByScope' = clearedMap
                   /\ tasks' = [tasks EXCEPT ![t] =
                                  IF infos = <<>> THEN finished(t)
                                  ELSE [pc |-> "files", src |-> 0, idx |-> 1, found |-> <<>>]]
           /\ serverLog' = IF src = Len(sourceDirs) /\ infos = <<>>
                           THEN afterUpdate(t, serverLog)
                           ELSE serverLog
    /\ UNCHANGED <<disk, pending, changes, driver, loads>>
    /\ UNCHANGED callVars

\* buildRoutes: the readdir calls of `await getPageFiles(dir, ...)` for
\* pagesInfos[idx] see the disk as it is now; the call has yet to return
FilesRead(t) ==
    /\ tasks[t].pc = "files"
    /\ tasks' = [tasks EXCEPT
                   ![t].pc = "merge",
                   ![t].found = getPageFiles(pagesInfos[tasks[t].idx].path, driver.ext, disk)]
    /\ UNCHANGED <<disk, pagesInfos, routesByScope, pending, changes, driver, serverLog, loads>>
    /\ UNCHANGED callVars

\* buildRoutes: `await getPageFiles(dir, ...)` returns the files it read for
\* pagesInfos[idx]; their routes are built and merged, and the loop goes on to
\* the next directory or buildRoutes returns
FilesDone(t) ==
    /\ tasks[t].pc = "merge"
    /\ \E info \in {pagesInfos[tasks[t].idx]} :
       \E found \in {tasks[t].found} :
       \E built \in {filesToRoutes(found, info.path, info.scope, driver)} :
           routesByScope' = mergeRoutes(routesByScope, built)
    /\ tasks' = [tasks EXCEPT ![t] =
                   IF tasks[t].idx < Len(pagesInfos)
                   THEN [pc |-> "files", src |-> 0, idx |-> tasks[t].idx + 1, found |-> <<>>]
                   ELSE finished(t)]
    /\ serverLog' = IF tasks[t].idx < Len(pagesInfos)
                    THEN serverLog
                    ELSE afterUpdate(t, serverLog)
    /\ UNCHANGED <<disk, pagesInfos, pending, changes, driver, loads>>
    /\ UNCHANGED callVars

\* while the server runs, a page file is added to a watched directory
DiskAdd(dir, stem) ==
    /\ tasks[1].pc = "done"
    /\ changes < MaxChanges
    /\ dir \in DOMAIN disk
    /\ ~InSeq(stem, disk[dir])
    /\ disk' = [disk EXCEPT ![dir] = Append(@, stem)]
    /\ pending' = pending + 1
    /\ changes' = changes + 1
    /\ UNCHANGED <<pagesInfos, routesByScope, tasks, driver, serverLog, loads>>
    /\ UNCHANGED callVars

\* while the server runs, a page file is removed from a watched directory
DiskUnlink(dir, stem) ==
    /\ tasks[1].pc = "done"
    /\ changes < MaxChanges
    /\ dir \in DOMAIN disk
    /\ InSeq(stem, disk[dir])
    /\ disk' = [disk EXCEPT ![dir] = SelectSeq(@, LAMBDA x : x # stem)]
    /\ pending' = pending + 1
    /\ changes' = changes + 1
    /\ UNCHANGED <<pagesInfos, routesByScope, tasks, driver, serverLog, loads>>
    /\ UNCHANGED callVars

\* while the server runs, the watcher reports 'addDir' or 'unlinkDir' for an
\* empty directory whose name ends with a driver extension: the handler takes
\* the event as relevant, and the files are what they were
DirEvent ==
    /\ tasks[1].pc = "done"
    /\ changes < MaxChanges
    /\ pending' = pending + 1
    /\ changes' = changes + 1
    /\ UNCHANGED <<disk, pagesInfos, routesByScope, tasks, driver, serverLog, loads>>
    /\ UNCHANGED callVars

\* watcher.on('all') for an 'add' or 'unlink' event of a file with a driver
\* extension: the handler calls updateRoutes(), which runs up to its first await
HandleEvent(t) ==
    /\ t > 1
    /\ tasks[t].pc = "idle"
    /\ \A u \in 2..(t - 1) : tasks[u].pc # "idle"
    /\ pending > 0
    /\ pending' = pending - 1
    /\ tasks' = [tasks EXCEPT ![t] = [pc |-> "scan", src |-> 1, idx |-> 0, found |-> <<>>]]
    /\ UNCHANGED <<disk, pagesInfos, routesByScope, changes, driver, serverLog, loads>>
    /\ UNCHANGED callVars

NextModule ==
    \/ \E k \in 1..Len(PagesDirs), stem \in ModuleStems : CreateFile(PagesDirs[k], stem)
    \/ Ready
    \/ \E t \in TaskIds : ScanDone(t)
    \/ \E t \in TaskIds : FilesRead(t)
    \/ \E t \in TaskIds : FilesDone(t)
    \/ \E k \in 1..Len(PagesDirs), stem \in ModuleStems : DiskAdd(PagesDirs[k], stem)
    \/ \E k \in 1..Len(PagesDirs), stem \in ModuleStems : DiskUnlink(PagesDirs[k], stem)
    \/ DirEvent
    \/ \E t \in TaskIds : HandleEvent(t)

ModuleSpec == InitModule /\ [][NextModule]_vars

\* no call of updateRoutes is between its first await and its return
NoCallInProgress == \A t \in TaskIds : tasks[t].pc \in {"idle", "done"}

\* the handler of an event starts when no earlier call is still in progress
SequentialEvent(t) == NoCallInProgress /\ HandleEvent(t)

\* the module when the files stay as they are once the server runs and the
\* calls of updateRoutes do not overlap: the only events are those of
\* DirEvent, and the handler of an event starts only after the calls before it
\* have returned
NextSequential ==
    \/ \E k \in 1..Len(PagesDirs), stem \in ModuleStems : CreateFile(PagesDirs[k], stem)
    \/ Ready
    \/ \E t \in TaskIds : ScanDone(t)
    \/ \E t \in TaskIds : FilesRead(t)
    \/ \E t \in TaskIds : FilesDone(t)
    \/ DirEvent
    \/ \E t \in TaskIds : SequentialEvent(t)

SequentialSpec == InitModule /\ [][NextSequential]_vars

\* the scopes whose virtual module is asked for: 'global', the key the map
\* always has
LoadScopes == {W_global}

\* load(id) of the virtual module of a scope, once the 'ready' hook has run:
\* it reads routesByScope.get(scope) || [] and hands the list to routesToCode
Load(scope) ==
    /\ tasks[1].pc = "done"
    /\ Len(loads) < MaxLoads
    /\ loads' = Append(loads, [scope |-> scope, routes |-> mapGet(routesByScope, scope)])
    /\ UNCHANGED <<disk, pagesInfos, routesByScope, tasks, pending, changes, driver,
                   serverLog>>
    /\ UNCHANGED callVars

\* the module with its consumers: the virtual modules are loaded while the
\* watcher handlers rebuild the routes
NextServe ==
    \/ NextModule
    \/ \E scope \in LoadScopes : Load(scope)

ServeSpec == InitModule /\ [][NextServe]_vars

\* weak fairness of the step that takes task t on from the position `at`. It is
\* WF_vars(A) written out for A = ScanDone(t) and A = FilesDone(t): A is
\* enabled exactly when tasks[t].pc = at, and A is the only step that changes
\* the record of a task in that position
TaskStepFair(t, at) ==
    \/ []<>(tasks[t].pc # at)
    \/ []<><<tasks[t].pc = at /\ tasks'[t] # tasks[t]>>_vars

\* the event loop: an emitted watcher event is delivered to its handler, and
\* every file-system call that a handler or hook awaits returns
ModuleFairness ==
    \A t \in TaskIds :
        /\ WF_vars(HandleEvent(t))
        /\ TaskStepFair(t, "scan")
        /\ WF_vars(FilesRead(t))
        /\ TaskStepFair(t, "merge")

LiveModuleSpec == ModuleSpec /\ ModuleFairness

-----------------------------------------------------------------------------
(* C10 *)

\* the first updateRoutes() has returned, no other call of it is in progress
\* and no watcher event is waiting for its handler
AtRest ==
    /\ tasks[1].pc = "done"
    /\ \A t \in TaskIds : tasks[t].pc \in {"idle", "done"}
    /\ pending = 0

\* the name of the leading '@name/' directory of a relative path, else empty
LeadingScope(stem) ==
    IF Len(stem) >= 3 /\ stem[1] = "@" /\ IndexFrom(stem, "/", 2) >= 3
    THEN SubSeq(stem, 2, IndexFrom(stem, "/", 2) - 1)
    ELSE Empty

\* the page files on disk that lie under an '@name/' directory
ScopedPagesOnDisk ==
    {p \in [dir : DOMAIN disk, stem : ModuleStems] :
        /\ InSeq(p.stem, disk[p.dir])
        /\ LeadingScope(p.stem) # Empty
        /\ IsPageFile(AbsPath(p.dir, p.stem, driver.ext))}

\* the top-level route of a file that is alone in its pages directory
RouteAlone(dir, stem) ==
    filesToRoutes(<<AbsPath(dir, stem, driver.ext)>>, dir, scopeOfPagesDir(dir), driver)

\* another pages directory holds a file whose route has the same scope and
\* path: one of the two replaces the other when the directories are merged
Overridden(p) ==
    \E d \in DOMAIN disk \ {p.dir} : \E i \in 1..Len(disk[d]) :
        LET mine == RouteAlone(p.dir, p.stem)
            other == RouteAlone(d, disk[d][i])
        IN  /\ mine # <<>>
            /\ other # <<>>
            /\ mine[1].scope = other[1].scope
            /\ mine[1].path = other[1].path

\* the routes, nested ones included, served under a scope
ServedUnder(scope) == Elems(Flatten(mapGet(routesByScope, scope)))

\* C10: after a build pass, every page on disk under '@name/' that no other
\* pages directory overrides has a route in the set of routes served for the
\* scope `name`, that route carries the scope `name`, and the page has no
\* route in the set served for the ambient scope of its pages directory when
\* that scope is another one
C10_ScopedPagesServed ==
    AtRest =>
        \A p \in ScopedPagesOnDisk :
            LET f == AbsPath(p.dir, p.stem, driver.ext)
                name == LeadingScope(p.stem)
                ambient == scopeOfPagesDir(p.dir)
            IN  ~Overridden(p) =>
                /\ \E r \in ServedUnder(name) : r.file = f /\ r.scope = name
                /\ name # ambient => ~\E r \in ServedUnder(ambient) : r.file = f

-----------------------------------------------------------------------------
(* C11 *)

\* C11: in the forest returned by filesToRoutes, every route that has children
\* has the same scope as each of its children, for page routes and for
\* parent-file routes alike
C11_ChildrenShareScope ==
    pc = "built" =>
        \A r \in AllRoutes :
            \A i \in 1..Len(r.children) : r.children[i].scope = r.scope

-----------------------------------------------------------------------------
(* C12 *)

\* the first call of buildRoutes has started
BuildStarted == tasks[1].pc \in {"files", "merge", "done"}

\* C12: at every point at which a consumer can read routesByScope once the
\* first buildRoutes call has started, a later rebuild in progress included,
\* the map has the key 'global'
C12_GlobalKeyPresent ==
    BuildStarted => mapHas(routesByScope, W_global)

\* a rebuild started by the watcher has just cleared the map while the disk
\* holds pages, and waits for the files of its first directory
C12_Witness ==
    /\ \E t \in TaskIds : t > 1 /\ tasks[t].pc = "files" /\ tasks[t].idx = 1
    /\ routesByScope = clearedMap
    /\ countFiles(disk, 1) > 0

-----------------------------------------------------------------------------
(* C13 *)

\* no list of the map m holds two routes with the same path
NoDuplicatePaths(m) ==
    \A k \in 1..Len(m) :
        \A i, j \in 1..Len(m[k].routes) :
            m[k].routes[i].path = m[k].routes[j].path => i = j

\* rs[k] is the last route of rs with its scope and path
LastOfItsKey(rs, k) ==
    \A j \in (k + 1)..Len(rs) :
        ~(rs[j].scope = rs[k].scope /\ rs[j].path = rs[k].path)

\* the map m holds what last-wins merging of the routes rs into the map m0
\* leaves: the last route of every scope and path of rs, and the routes of m0
\* that no route of rs has the scope and path of
MergedLastWins(m0, rs, m) ==
    /\ NoDuplicatePaths(m)
    /\ \A k \in 1..Len(rs) :
          LastOfItsKey(rs, k) => InSeq(rs[k], mapGet(m, rs[k].scope))
    /\ \A k \in 1..Len(m0) : \A i \in 1..Len(m0[k].routes) :
          LET e == m0[k].routes[i]
          IN  (\A j \in 1..Len(rs) : ~(rs[j].scope = m0[k].scope /\ rs[j].path = e.path))
              => InSeq(e, mapGet(m, m0[k].scope))
    /\ \A k \in 1..Len(m) : \A i \in 1..Len(m[k].routes) :
          \/ InSeq(m[k].routes[i], mapGet(m0, m[k].scope))
          \/ \E j \in 1..Len(rs) : rs[j] = m[k].routes[i] /\ rs[j].scope = m[k].scope

\* the routes of all pages directories, in the order in which a build pass that
\* reads the disk as it is now produces them
RECURSIVE ProducedFrom(_)
ProducedFrom(i) ==
    IF i > Len(pagesInfos) THEN <<>>
    ELSE filesToRoutes(getPageFiles(pagesInfos[i].path, driver.ext, disk),
                       pagesInfos[i].path, pagesInfos[i].scope, driver)
         \o ProducedFrom(i + 1)

\* the first build pass is over and the disk has not changed since
FirstPassDone == tasks[1].pc = "done" /\ changes = 0

\* the step in which task t merges the routes of the directory it has read
MergeStepOf(t) == tasks[t].pc = "merge" /\ tasks'[t].pc # "merge"

\* C13: after a build pass no scope's top-level list holds two routes with the
\* same path; of several top-level routes of one scope with the same path the
\* one produced last in processing order is kept, so later pages directories
\* override earlier ones; routes of different scopes never replace each other
C13_LastWins ==
    /\ [](BuildStarted => NoDuplicatePaths(routesByScope))
    /\ [](FirstPassDone => MergedLastWins(clearedMap, ProducedFrom(1), routesByScope))
    /\ [][\A t \in TaskIds :
            MergeStepOf(t) =>
                MergedLastWins(routesByScope,
                               filesToRoutes(tasks[t].found,
                                             pagesInfos[tasks[t].idx].path,
                                             pagesInfos[tasks[t].idx].scope, driver),
                               routesByScope')]_vars

\* after the first pass: two pages directories each hold a file whose route is
\* '/' in scope 'global', and the one of the later directory is served
C13_Witness ==
    /\ FirstPassDone
    /\ Len(pagesInfos) = 2
    /\ \E i \in 1..Len(ProducedFrom(1)) : \E j \in (i + 1)..Len(ProducedFrom(1)) :
          /\ ProducedFrom(1)[i].scope = ProducedFrom(1)[j].scope
          /\ ProducedFrom(1)[i].path = ProducedFrom(1)[j].path
          /\ StartsWith(ProducedFrom(1)[i].file, pagesInfos[1].path \o Slash)
          /\ StartsWith(ProducedFrom(1)[j].file, pagesInfos[2].path \o Slash)
          /\ InSeq(ProducedFrom(1)[j], mapGet(routesByScope, ProducedFrom(1)[j].scope))

-----------------------------------------------------------------------------
(* C14 *)

P_dashboard == Slash \o W_dashboard

\* pages/dashboard/ holds +index.vue, index.vue and overview.vue, nothing else
C14_Case ==
    /\ pc = "built"
    /\ driver = vueDriver
    /\ Len(files) = 3
    /\ Elems(files) = { FileOf(W_dashboard \o Slash \o S_plusIndex),
                        FileOf(W_dashboard \o Slash \o W_index),
                        FileOf(W_dashboard \o Slash \o W_overview) }

\* C14: for pages/dashboard/ with +index.vue, index.vue and overview.vue the
\* parent route has path '/dashboard' and its children have the paths 'index'
\* and 'overview', relative to it, not absolute paths beginning with
\* '/dashboard'
C14_DashboardChildrenRelative ==
    C14_Case =>
        /\ Len(routes) = 1
        /\ routes[1].file = FileOf(W_dashboard \o Slash \o S_plusIndex)
        /\ routes[1].path = P_dashboard
        /\ Len(routes[1].children) = 2
        /\ \A i \in 1..Len(routes[1].children) :
              LET c == routes[1].children[i]
              IN  /\ ~StartsWith(c.path, P_dashboard)
                  /\ c.file = FileOf(W_dashboard \o Slash \o W_index) => c.path = W_index
                  /\ c.file = FileOf(W_dashboard \o Slash \o W_overview) => c.path = W_overview

-----------------------------------------------------------------------------
(* C15 *)

\* a segment of the relative path, the file name or a folder, starts with '_' or '.'
IsIgnoredStem(stem) ==
    \E i \in 1..Len(stem) :
        /\ i = 1 \/ stem[i - 1] = "/"
        /\ stem[i] \in {"_", "."}

\* C15: no route is generated for a file whose own name, or the name of one of
\* its folders below the pages root, starts with '_' or '.'
C15_IgnoredFilesNoRoute ==
    pc = "built" => \A r \in AllRoutes : ~IsIgnoredStem(StemOf(r.file))

-----------------------------------------------------------------------------
(* C16 *)

\* the segments of a path, split at '/'
RECURSIVE Segments(_)
Segments(s) ==
    IF ~Includes(s, "/") THEN <<s>>
    ELSE <<SubSeq(s, 1, IndexFrom(s, "/", 1) - 1)>>
         \o Segments(Slice(s, IndexFrom(s, "/", 1)))

\* the name part of one segment: [...x] gives 'x-all', [x] gives 'x'
SegmentName(seg) ==
    IF Len(seg) >= 6 /\ SubSeq(seg, 1, 4) = <<"[", ".", ".", ".">> /\ seg[Len(seg)] = "]"
    THEN SubSeq(seg, 5, Len(seg) - 1) \o <<"-", "a", "l", "l">>
    ELSE IF Len(seg) >= 3 /\ seg[1] = "[" /\ seg[Len(seg)] = "]"
         THEN SubSeq(seg, 2, Len(seg) - 1)
         ELSE seg

IsGroupSegment(seg) == Len(seg) >= 3 /\ seg[1] = "(" /\ seg[Len(seg)] = ")"

RECURSIVE JoinDashed(_)
JoinDashed(segs) ==
    IF segs = <<>> THEN Empty
    ELSE IF Len(segs) = 1 THEN segs[1]
         ELSE segs[1] \o <<"-">> \o JoinDashed(Tail(segs))

\* the name the rule gives to a page with this relative path (no extension)
ExpectedName(stem) ==
    LET all == Segments(stem)
        unscoped == IF Len(all) > 1 /\ Len(all[1]) >= 2 /\ all[1][1] = "@"
                    THEN Tail(all) ELSE all
        dirs == SelectSeq(SubSeq(unscoped, 1, Len(unscoped) - 1),
                          LAMBDA g : ~IsGroupSegment(g))
        kept == dirs \o <<unscoped[Len(unscoped)]>>
        named == [i \in 1..Len(kept) |-> SegmentName(kept[i])]
    IN  IF Len(named) > 1 /\ named[Len(named)] = W_index
        THEN JoinDashed(SubSeq(named, 1, Len(named) - 1))
        ELSE JoinDashed(named)

N_usersIndex == W_users
N_docsSlugAll == W_docs \o <<"-">> \o W_slug \o <<"-", "a", "l", "l">>

\* C16: the route of a page file without '_' in its path is named by its
\* relative path with the extension, a leading @scope/ and all (group)/ segments
\* removed, [...x] replaced by 'x-all', [x] by 'x', '/' by '-', a trailing
\* '-index' dropped and a sole 'index' kept; so index is 'index', users/index
\* 'users', users/[id] 'users-id' and docs/[...slug] 'docs-slug-all'
C16_PageName ==
    pc = "built" =>
        \A r \in AllRoutes :
            (IsPageFile(r.file) /\ ~Includes(RelOf(r.file), "_")) =>
                /\ r.name = ExpectedName(StemOf(r.file))
                /\ StemOf(r.file) = W_index => r.name = W_index
                /\ StemOf(r.file) = W_users \o Slash \o W_index => r.name = N_usersIndex
                /\ StemOf(r.file) = W_users \o Slash \o Br(W_id) => r.name = N_usersId
                /\ StemOf(r.file) = W_docs \o Slash \o BrAll(W_slug) => r.name = N_docsSlugAll

-----------------------------------------------------------------------------
(* C17 *)

\* C17: no route of the forest returned by filesToRoutes has an empty children
\* list: the field is present only on routes with at least one nested route
C17_NoEmptyChildren ==
    pc = "built" =>
        \A r \in AllRoutes :
            /\ r.hasChildren => r.children # <<>>
            /\ ~r.hasChildren => r.children = <<>>

-----------------------------------------------------------------------------
(* C18 *)

\* C18: for every FileNode that filesToRoutes creates when it is called with
\* the layoutFile and parentFile of a built-in driver, isLayout and isParent
\* are not both true
C18_RolesExclusive ==
    pc = "built" =>
        \A i \in 1..Len(Nodes) : ~(Nodes[i].isLayout /\ Nodes[i].isParent)

-----------------------------------------------------------------------------
(* C19 *)

\* no two routes of the list rs have the same name
UniqueNames(rs) ==
    \A i, j \in 1..Len(rs) : rs[i].name = rs[j].name => i = j

\* C19: in every route list of the forest returned by filesToRoutes, the
\* top-level list and each children list, no two routes share a name
C19_SiblingNamesUnique ==
    pc = "built" =>
        /\ UniqueNames(routes)
        /\ \A r \in AllRoutes : UniqueNames(r.children)

-----------------------------------------------------------------------------
(* C20 *)

\* what one watcher handler does to the dev server once its rebuild is over
HandlerEffects == <<"updated", "invalidate", "full-reload">>

\* the log is made of the effects of whole handlers, each in its order
RECURSIVE InHandlerOrder(_)
InHandlerOrder(log) ==
    \/ log = <<>>
    \/ /\ Len(log) >= 3
       /\ SubSeq(log, 1, 3) = HandlerEffects
       /\ InHandlerOrder(SubSeq(log, 4, Len(log)))

\* the step in which the updateRoutes() call of a watcher handler returns
RebuildCompletes ==
    \E t \in TaskIds :
        /\ t > 1
        /\ tasks[t].pc \in {"scan", "merge"}
        /\ tasks'[t].pc = "idle"

\* C20: with the watcher on, every add or unlink event of a page file in a
\* discovered pages directory is eventually followed by a completed rebuild of
\* routesByScope, then by the invalidation of the virtual modules, then by a
\* full-reload message, in that order
C20_EventThenReload ==
    /\ \A k \in 1..MaxChanges : (changes >= k) ~> (Len(serverLog) >= 3 * k)
    /\ [](InHandlerOrder(serverLog))
    /\ [][serverLog' # serverLog =>
            /\ RebuildCompletes
            /\ serverLog' = serverLog \o HandlerEffects]_vars

\* both a file added and a file removed while the server runs have had their
\* rebuild, invalidation and full-reload
C20_Witness ==
    /\ changes = 2
    /\ pending = 0
    /\ \A t \in TaskIds : tasks[t].pc \in {"idle", "done"}
    /\ serverLog = HandlerEffects \o HandlerEffects
    /\ \E d \in DOMAIN disk : disk[d] = <<>>

-----------------------------------------------------------------------------
\* C21

\* the calls of updateRoutes whose buildRoutes pass has cleared the map and has
\* not yet merged the routes of the last pages directory
PassesInProgress == {t \in TaskIds : tasks[t].pc \in {"files", "merge"}}

\* C21: at most one buildRoutes pass is in progress on routesByScope at any
\* time, also when several file events arrive before an earlier rebuild has
\* finished
C21_OnePassAtATime == Cardinality(PassesInProgress) <= 1

-----------------------------------------------------------------------------
\* C22

\* the routes of rs that sit below a page route: in the children of a page
\* route, or in the children of a route that does (inside says that rs
\* itself is such a list)
RECURSIVE BelowPage(_, _)
BelowPage(rs, inside) ==
    IF rs = <<>> THEN <<>>
    ELSE (IF inside THEN <<Head(rs)>> ELSE <<>>)
         \o BelowPage(Head(rs).children, inside \/ IsPageFile(Head(rs).file))
         \o BelowPage(Tail(rs), inside)

IsRelativePath(p) == p = Empty \/ Head(p) # "/"

\* C22: every route in the children of a page route, at any depth below it,
\* has a path that does not start with '/' (the empty string for an index
\* child)
C22_ChildPathsRelative ==
    pc = "built" => \A r \in Elems(BelowPage(routes, FALSE)) : IsRelativePath(r.path)

-----------------------------------------------------------------------------
\* C23

\* a directory and the directories above it, up to the base directory
RECURSIVE Ancestors(_)
Ancestors(d) == IF d = Dot THEN {} ELSE {d} \cup Ancestors(dirname(d))

\* the directories of the input: those that hold a file at any depth
InputDirs == {Dot} \cup UNION {Ancestors(DirOf(files[i])) : i \in 1..Len(files)}

\* the direct child directories of D that match no page stem of D
OrphanDirsOf(D) ==
    {S \in InputDirs :
        /\ S # Dot
        /\ dirname(S) = D
        /\ \A i \in 1..Len(files) :
              (IsPageFile(files[i]) /\ DirOf(files[i]) = D) => StemOf(files[i]) # S}

\* the route list built for D: what processDirectory returns, or what it
\* hands to the parent file of D as children
ListBuiltFor(D, parentPath, parentScope) ==
    LET res == ResultOf(D, parentPath, parentScope)
    IN  IF D \in DirsWithParent THEN res[1].children ELSE res

\* the number of routes that the directories Ss give when each is built with
\* an empty parentPath and the scope parentScope
RECURSIVE OrphanCount(_, _)
OrphanCount(Ss, parentScope) ==
    IF Ss = {} THEN 0
    ELSE LET S == CHOOSE y \in Ss : TRUE
         IN  Len(ResultOf(S, Empty, parentScope)) + OrphanCount(Ss \ {S}, parentScope)

\* C23: the route list built for a directory D starts with the routes of the
\* pages directly in D, in input order, and goes on with the routes of every
\* direct child directory of D that matches no page stem of D, built with an
\* empty parentPath and the inherited scope and spliced in as siblings
C23_PagesThenOrphans ==
    pc = "built" =>
        \A D \in InputDirs, pp \in ParentPaths, ps \in ParentScopes :
            LET list == ListBuiltFor(D, pp, ps)
                n == Len(PagesIn(D))
                rest == SubSeq(list, n + 1, Len(list))
                orphansOf(S) == ResultOf(S, Empty, ps)
            IN  /\ Len(list) >= n
                /\ SubSeq(FilesOf(list), 1, n) = PagesIn(D)
                /\ Elems(rest) = UNION {Elems(orphansOf(S)) : S \in OrphanDirsOf(D)}
                /\ Len(rest) = OrphanCount(OrphanDirsOf(D), ps)

-----------------------------------------------------------------------------
\* C24

RECURSIVE JoinSlashed(_)
JoinSlashed(segs) ==
    IF segs = <<>> THEN Empty
    ELSE IF Len(segs) = 1 THEN segs[1]
         ELSE segs[1] \o Slash \o JoinSlashed(Tail(segs))

\* the directory D without its leading @scope segment and its (group)
\* segments; the empty string for the root
CleanDirOf(D) ==
    IF D = Dot THEN Empty
    ELSE LET all == Segments(D)
             unscoped == IF Len(all[1]) >= 2 /\ all[1][1] = "@" THEN Tail(all) ELSE all
         IN  JoinSlashed(SelectSeq(unscoped, LAMBDA g : ~IsGroupSegment(g)))

ParentPathFor(D, parentPath) ==
    IF parentPath # Empty THEN Empty ELSE Slash \o CleanDirOf(D)

ParentNameFor(D) ==
    IF CleanDirOf(D) = Empty THEN W_parent ELSE ReplaceChar(CleanDirOf(D), "/", "-")

-----------------------------------------------------------------------------
\* C25

\* the sequence s without its i-th element
RemoveAt(s, i) == SubSeq(s, 1, i - 1) \o SubSeq(s, i + 1, Len(s))

\* the forest of the input without its i-th file
ForestWithout(i) == filesToRoutes(RemoveAt(files, i), BaseDir, dirScope, driver)

\* the routes of the forest rs that the file f backs
RoutesOfFile(rs, f) == {r \in Elems(Flatten(rs)) : r.file = f}

\* C25: the name of a route depends on the relative path of its file only, not
\* on the parent path it was nested under: a file keeps its name when another
\* file of the input is taken away, so that its directory is no longer the
\* child directory of a page but an orphan (flat-route files included)
C25_NameIndependentOfNesting ==
    pc = "built" =>
        \A i \in 1..Len(files) :
            \A f \in Elems(files) :
                \A r \in RoutesOfFile(routes, f), q \in RoutesOfFile(ForestWithout(i), f) :
                    r.name = q.name

-----------------------------------------------------------------------------
\* C26

HasBracket(p) == Includes(p, "[") \/ Includes(p, "]")

\* C26: no path of the forest contains a literal '[' or ']': every [name]
\* segment of an input path is rendered as ':name' in every route derived from
\* it, the route of a parent file inside a dynamic directory included
C26_NoBracketInPath ==
    pc = "built" => \A r \in AllRoutes : ~HasBracket(r.path)

-----------------------------------------------------------------------------
\* C27

\* C27: after any number of updateRoutes calls pagesInfos holds each
\* discovered pages directory at most once, so its length, the reported
\* page-folder count, is the number of distinct pages directories
C27_PagesInfosDistinct ==
    AtRest =>
        /\ \A i, j \in 1..Len(pagesInfos) :
              pagesInfos[i].path = pagesInfos[j].path => i = j
        /\ Len(pagesInfos) = Cardinality({pagesInfos[k].path : k \in 1..Len(pagesInfos)})

-----------------------------------------------------------------------------
\* C28

\* the pages directories that one scan of the sources finds on the disk d
RECURSIVE scanFrom(_, _)
scanFrom(k, d) ==
    IF k > Len(sourceDirs) THEN <<>>
    ELSE getPagesDirs(sourceDirs[k], d) \o scanFrom(k + 1, d)

\* one pass of the loop of buildRoutes over infos, from the map m, with no
\* other call in between: every directory is read from the disk d
RECURSIVE buildOver(_, _, _)
buildOver(infos, d, m) ==
    IF infos = <<>> THEN m
    ELSE buildOver(Tail(infos), d,
                   mergeRoutes(m, filesToRoutes(getPageFiles(Head(infos).path, driver.ext, d),
                                                Head(infos).path, Head(infos).scope, driver)))

\* what the first call of updateRoutes leaves in the map for the files of d
FirstCallResult(d) == buildOver(scanFrom(1, d), d, clearedMap)

\* the number of calls of updateRoutes that have returned
CallsReturned == (IF tasks[1].pc = "done" THEN 1 ELSE 0) + Len(serverLog) \div 3

\* C28: while the files on disk stay as they are, the map after any number of
\* calls of updateRoutes that do not overlap is the map after the first call:
\* the same scopes and, per scope, the same routes in the same order
C28_RebuildIdempotent ==
    (NoCallInProgress /\ CallsReturned >= 1) => routesByScope = FirstCallResult(disk)

C28_Witness ==
    /\ NoCallInProgress
    /\ CallsReturned = 3
    /\ Len(pagesInfos) = 6
    /\ \E r \in Elems(mapGet(routesByScope, W_global)) :
          StartsWith(r.file, EntryPagesDirOf(SrcDir, W_popup))

-----------------------------------------------------------------------------
\* C29

\* C29: once the rebuilds that file events triggered, overlapping or not,
\* have all completed, the map is the result of one sequential build pass over
\* the final files: the same scopes, the same routes per scope in the same
\* order, the same winner for every duplicated path
C29_OverlapLikeSequential ==
    AtRest => routesByScope = FirstCallResult(disk)

-----------------------------------------------------------------------------
\* C30

\* the map holds the complete result of a build pass: no pass is between its
\* clear and its last merge, or the map is what a whole pass gives for the
\* files on disk
MapComplete == PassesInProgress = {} \/ routesByScope = FirstCallResult(disk)

\* C30: whenever a full-reload message is sent, and whenever load() reads the
\* routes of a scope, routesByScope holds the complete result of a finished
\* build pass, never a map that a rebuild in progress has cleared or only
\* partly filled again
C30_NoTornRead ==
    /\ [][Len(loads') > Len(loads) => MapComplete]_vars
    /\ [][serverLog' # serverLog =>
            \/ \A t \in TaskIds : tasks'[t].pc \notin {"files", "merge"}
            \/ routesByScope' = FirstCallResult(disk)]_vars

====
